---- MODULE Spec2Model ----
(***************************************************************************)
(* Model of the two operational scripts of the repository:                 *)
(*   scripts/test-pipeline.js  (the test runner: main and its steps)       *)
(*   scripts/setup.js          (the setup script, whose last step runs the *)
(*                              test runner as a child process)            *)
(* Every external call (SDK call, shell command, file system test) is an   *)
(* input of the environment, drawn with \E from the outcomes it can have.  *)
(***************************************************************************)
EXTENDS Integers, Sequences, FiniteSets, TLC

VARIABLES
  setupPc,       \* position of setup.js ("off": the runner was started directly)
  setupExit,     \* exit code of setup.js once setupPc = "exited"
  setupFailed,   \* the steps of setup.js that failed
  pc,            \* position of test-pipeline.js
  exitCode,      \* exit code of test-pipeline.js once pc = "exited"
  allPassed,     \* main's allPassed
  order,         \* the pipeline steps main has called, in call order
  ret,           \* the value each pipeline step returned (domain: steps returned)
  calls,         \* number of external calls issued, per call site
  raised,        \* the call sites whose call raised an error
  last,          \* the last external call or sleep: [op, ms]
  i,             \* waitForProcessing's loop counter
  maxAttempts,   \* waitForProcessing's parameter
  interval,      \* waitForProcessing's parameter
  found,         \* a polling scan returned a non-empty Items list
  items,         \* verifyData's items (each record is the set of its field names)
  missingFields, \* verifyData's missingFields
  response,      \* testApi's parsed response
  out            \* the kinds of message printed so far

vars == <<setupPc, setupExit, setupFailed, pc, exitCode, allPassed, order, ret,
          calls, raised, last, i, maxAttempts, interval, found, items,
          missingFields, response, out>>

setupVars == <<setupPc, setupExit, setupFailed>>
waitVars == <<i, maxAttempts, interval, found>>
verifyVars == <<items, missingFields>>

----------------------------------------------------------------------------
(* Bounds and program constants *)

\* largest maxAttempts handed to waitForProcessing when it is checked on its own
MaxAttempts == 3

DefaultMaxAttempts == 10
DefaultInterval == 2000
InitialDelay == 3000
ApiDelay == 2000
StatusCreated == 201

Intervals == {500, 1000, DefaultInterval}

Sites == {"listBuckets", "headBucket", "checkTable.scan", "putObject",
          "waitForProcessing.scan", "verifyData.scan", "invoke"}

requiredFields == {"id", "timestamp", "nome", "preco", "source_file"}

PipelineSteps == <<"uploadTestFile", "waitForProcessing", "verifyData", "testApi">>

NoCall == [op |-> "none", ms |-> 0]
NoResponse == [kind |-> "none"]

----------------------------------------------------------------------------
(* Helpers *)

\* an external call at a call site: counted, remembered as the last event,
\* and recorded as raised when it fails
Call(site, ok) ==
  /\ calls' = [calls EXCEPT ![site] = @ + 1]
  /\ raised' = IF ok THEN raised ELSE raised \cup {site}
  /\ last' = [op |-> site, ms |-> 0]

NoCalls == UNCHANGED <<calls, raised, last>>

sleep(ms) == last' = [op |-> "sleep", ms |-> ms]

exit(code) == pc' = "exited" /\ exitCode' = code

Returns(step, value) == ret' = (step :> value) @@ ret

Called(step) == order' = Append(order, step)

----------------------------------------------------------------------------
(* test-pipeline.js: decisions of main and of its steps *)

C1_ContinuesWhenUnavailable(r) == FALSE

\* main: if (!await checkLocalStack())
LocalStackUnavailable(r) == ~r

C2_ContinuesWhenMissing(r) == FALSE

\* main: the operands of  !await checkBucket() || !await checkTable()
ResourceMissing(r) == ~r

C10_TrackOverwrite(passed, r) == r

\* main: if (!await step()) allPassed = false
Track(passed, r) == IF ~r THEN FALSE ELSE passed

C5_LoopCondOffByOne(n, max) == n <= max

\* waitForProcessing: the loop condition  i < maxAttempts
LoopCond(n, max) == n < max

\* waitForProcessing: result.Items && result.Items.length > 0
ScanOutcomes == {"items", "empty", "noItems", "error"}
NonEmpty(outcome) == outcome = "items"

\* verifyData: requiredFields.filter(field => !(field in firstItem))
MissingOf(firstItem) == {f \in requiredFields : f \notin firstItem}

C9_FatalWhenMissing(its, missing) == Len(its) > 0 /\ missing = {}

\* verifyData: the value returned once the scan has succeeded
verifyDataReturn(its, missing) == Len(its) > 0

\* the results the verifyData scan can have: it raises, or yields Items
\* (undefined, empty, or records of which the first is any set of fields)
AllFields == requiredFields
VerifyScanResults ==
  {[raises |-> TRUE, defined |-> FALSE, Items |-> <<>>],
   [raises |-> FALSE, defined |-> FALSE, Items |-> <<>>],
   [raises |-> FALSE, defined |-> TRUE, Items |-> <<>>]}
  \cup {[raises |-> FALSE, defined |-> TRUE, Items |-> <<first>>] :
          first \in SUBSET AllFields}
  \cup {[raises |-> FALSE, defined |-> TRUE, Items |-> <<first, AllFields>>] :
          first \in {{}, AllFields}}

\* the payloads lambda.invoke can yield: the call raises, the payload is not
\* JSON, it is JSON null, or it is an object with a statusCode and a body
\* string that is not JSON, JSON null, or a JSON object with some fields
StatusCodes == {200, StatusCreated, 500}
Bodies == {[kind |-> "invalid", fields |-> {}], [kind |-> "null", fields |-> {}]}
          \cup {[kind |-> "object", fields |-> F] : F \in SUBSET {"id", "nome"}}
ApiOutcomes ==
  {[kind |-> k, statusCode |-> 0, body |-> [kind |-> "invalid", fields |-> {}]] :
      k \in {"invokeError", "badPayload", "null"}}
  \cup {[kind |-> "object", statusCode |-> s, body |-> b] :
          s \in StatusCodes, b \in Bodies}

\* testApi: JSON.parse(response.body) followed by the read of body.id
\* succeeds exactly for a body that is JSON and not null
BodyReadable(b) == b.kind = "object"

\* testApi: the value returned
testApiReturn(o) ==
  /\ o.kind = "object"
  /\ o.statusCode = StatusCreated
  /\ BodyReadable(o.body)

----------------------------------------------------------------------------
(* test-pipeline.js: main and its steps *)

checkLocalStack ==
  /\ pc = "checkLocalStack"
  /\ \E listOk \in BOOLEAN :
       /\ Call("listBuckets", listOk)
       /\ IF LocalStackUnavailable(listOk)
            THEN /\ exit(1)
                 /\ out' = out \cup {"localStackDown"}
            ELSE /\ pc' = "checkBucket"
                 /\ out' = out \cup (IF listOk THEN {"localStackUp"}
                                               ELSE {"localStackDown"})
                 /\ UNCHANGED exitCode
  /\ UNCHANGED <<setupVars, allPassed, order, ret, waitVars, verifyVars, response>>

checkBucket ==
  /\ pc = "checkBucket"
  /\ \E headOk \in BOOLEAN :
       /\ Call("headBucket", headOk)
       /\ IF ResourceMissing(headOk)
            THEN /\ exit(1)
                 /\ out' = out \cup {"bucketMissing", "resourcesUnavailable"}
            ELSE /\ pc' = "checkTable"
                 /\ out' = out \cup (IF headOk THEN {"bucketExists"}
                                               ELSE {"bucketMissing"})
                 /\ UNCHANGED exitCode
  /\ UNCHANGED <<setupVars, allPassed, order, ret, waitVars, verifyVars, response>>

checkTable ==
  /\ pc = "checkTable"
  /\ \E scanOk \in BOOLEAN :
       /\ Call("checkTable.scan", scanOk)
       /\ IF ResourceMissing(scanOk)
            THEN /\ exit(1)
                 /\ out' = out \cup {"tableMissing", "resourcesUnavailable"}
            ELSE /\ pc' = "uploadTestFile"
                 /\ out' = out \cup (IF scanOk THEN {"tableExists"}
                                               ELSE {"tableMissing"})
                 /\ UNCHANGED exitCode
  /\ UNCHANGED <<setupVars, allPassed, order, ret, waitVars, verifyVars, response>>

\* fs.existsSync, fs.readFileSync (outside the try) and s3.putObject (inside)
uploadTestFile ==
  /\ pc = "uploadTestFile"
  /\ Called("uploadTestFile")
  /\ \E exists \in BOOLEAN, readOk \in BOOLEAN, putOk \in BOOLEAN :
       IF ~exists
         THEN /\ NoCalls
              /\ out' = out \cup {"testFileNotFound"}
              /\ Returns("uploadTestFile", FALSE)
              /\ allPassed' = Track(allPassed, FALSE)
              /\ pc' = "sleep3000"
              /\ UNCHANGED exitCode
         ELSE IF ~readOk
           \* readFileSync throws: main rejects and main().catch exits
           THEN /\ NoCalls
                /\ out' = out \cup {"fatalError"}
                /\ exit(1)
                /\ UNCHANGED <<ret, allPassed>>
           ELSE /\ Call("putObject", putOk)
                /\ out' = out \cup (IF putOk THEN {"uploaded"} ELSE {"uploadError"})
                /\ Returns("uploadTestFile", putOk)
                /\ allPassed' = Track(allPassed, putOk)
                /\ pc' = "sleep3000"
                /\ UNCHANGED exitCode
  /\ UNCHANGED <<setupVars, waitVars, verifyVars, response>>

\* main: await sleep(3000), then the call waitForProcessing() with its defaults
startPolling ==
  /\ pc = "sleep3000"
  /\ sleep(InitialDelay)
  /\ Called("waitForProcessing")
  /\ i' = 0
  /\ maxAttempts' = DefaultMaxAttempts
  /\ interval' = DefaultInterval
  /\ found' = FALSE
  /\ pc' = "wait_loop"
  /\ UNCHANGED <<setupVars, exitCode, allPassed, ret, calls, raised, verifyVars,
                 response, out>>

\* one iteration of the polling loop up to its await of sleep, or to the catch
waitScan ==
  /\ pc = "wait_loop"
  /\ LoopCond(i, maxAttempts)
  /\ \E outcome \in ScanOutcomes :
       /\ Call("waitForProcessing.scan", outcome # "error")
       /\ found' = (found \/ outcome = "items")
       /\ IF outcome = "error"
            THEN /\ out' = out \cup {"scanErrorWarning"}
                 /\ i' = i + 1
                 /\ UNCHANGED <<pc, ret>>
            ELSE IF NonEmpty(outcome)
              THEN /\ out' = out \cup {"dataFound"}
                   /\ Returns("waitForProcessing", TRUE)
                   /\ pc' = "wait_ret"
                   /\ UNCHANGED i
              ELSE /\ out' = out \cup {"waitingWarning"}
                   /\ pc' = "wait_sleep"
                   /\ UNCHANGED <<i, ret>>
  /\ UNCHANGED <<setupVars, exitCode, allPassed, order, maxAttempts, interval,
                 verifyVars, response>>

\* await sleep(interval) at the end of the try block, then i++
waitSleep ==
  /\ pc = "wait_sleep"
  /\ sleep(interval)
  /\ i' = i + 1
  /\ pc' = "wait_loop"
  /\ UNCHANGED <<setupVars, exitCode, allPassed, order, ret, calls, raised,
                 maxAttempts, interval, found, verifyVars, response, out>>

\* the loop ends without a return
waitTimeout ==
  /\ pc = "wait_loop"
  /\ ~LoopCond(i, maxAttempts)
  /\ out' = out \cup {"timeout"}
  /\ Returns("waitForProcessing", FALSE)
  /\ pc' = "wait_ret"
  /\ UNCHANGED <<setupVars, exitCode, allPassed, order, calls, raised, last,
                 waitVars, verifyVars, response>>

\* main: if (!await waitForProcessing()) allPassed = false
afterWait ==
  /\ pc = "wait_ret"
  /\ allPassed' = Track(allPassed, ret["waitForProcessing"])
  /\ pc' = "verifyData"
  /\ UNCHANGED <<setupVars, exitCode, order, ret, calls, raised, last, waitVars,
                 verifyVars, response, out>>

verifyData ==
  /\ pc = "verifyData"
  /\ Called("verifyData")
  /\ \E res \in VerifyScanResults :
       /\ Call("verifyData.scan", ~res.raises)
       /\ IF res.raises
            THEN /\ out' = out \cup {"verifyError"}
                 /\ UNCHANGED verifyVars
                 /\ Returns("verifyData", FALSE)
                 /\ allPassed' = Track(allPassed, FALSE)
            ELSE LET its == IF res.defined THEN res.Items ELSE <<>>
                     missing == IF Len(its) > 0 THEN MissingOf(its[1]) ELSE {}
                     r == verifyDataReturn(its, missing)
                 IN /\ items' = its
                    /\ missingFields' = missing
                    /\ out' = out \cup {"totalRecords"} \cup
                         (IF Len(its) > 0
                            THEN (IF missing = {} THEN {"allFieldsPresent"}
                                                  ELSE {"missingFieldsWarning"})
                            ELSE {"noRecordsWarning"})
                    /\ Returns("verifyData", r)
                    /\ allPassed' = Track(allPassed, r)
  /\ pc' = "sleep2000"
  /\ UNCHANGED <<setupVars, exitCode, waitVars, response>>

\* main: await sleep(2000)
sleepBeforeApi ==
  /\ pc = "sleep2000"
  /\ sleep(ApiDelay)
  /\ pc' = "testApi"
  /\ UNCHANGED <<setupVars, exitCode, allPassed, order, ret, calls, raised,
                 waitVars, verifyVars, response, out>>

testApi ==
  /\ pc = "testApi"
  /\ Called("testApi")
  /\ \E o \in ApiOutcomes :
       LET r == testApiReturn(o)
       IN /\ Call("invoke", o.kind # "invokeError")
          /\ response' = o
          /\ out' = out \cup
               (IF o.kind = "object" /\ o.statusCode = StatusCreated
                  THEN {"apiWorking"} \cup
                       (IF BodyReadable(o.body) THEN {"recordCreated"}
                                                ELSE {"apiTestError"})
                  ELSE IF o.kind = "object" THEN {"apiStatusError"}
                                            ELSE {"apiTestError"})
          /\ Returns("testApi", r)
          /\ allPassed' = Track(allPassed, r)
  /\ pc' = "cleanup"
  /\ UNCHANGED <<setupVars, exitCode, waitVars, verifyVars>>

\* cleanup(), the final summary, and the normal end of the process
summary ==
  /\ pc = "cleanup"
  /\ out' = out \cup {"cleanupHint"} \cup
       (IF allPassed THEN {"allTestsPassed"} ELSE {"someTestsFailed"})
  /\ exit(0)
  /\ UNCHANGED <<setupVars, allPassed, order, ret, calls, raised, last, waitVars,
                 verifyVars, response>>

----------------------------------------------------------------------------
(* setup.js *)

runnerVars == <<pc, exitCode, allPassed, order, ret, calls, raised, last, i,
                maxAttempts, interval, found, items, missingFields, response>>

\* execute: true iff execSync did not throw
execute(commandOk) == commandOk

setupExitWith(code) == setupPc' = "exited" /\ setupExit' = code

\* a step guarded by  if (!execute(command)) { ...; process.exit(1) }
setupStep(step, next, failMessage) ==
  /\ setupPc = step
  /\ \E commandOk \in BOOLEAN :
       IF ~execute(commandOk)
         THEN /\ setupFailed' = setupFailed \cup {step}
              /\ out' = out \cup {failMessage}
              /\ setupExitWith(1)
         ELSE /\ setupPc' = next
              /\ UNCHANGED <<setupExit, setupFailed, out>>
  /\ UNCHANGED runnerVars

\* 1. if (!checkFile('package.json')) process.exit(1)
setupCheckPackage ==
  /\ setupPc = "checkPackage"
  /\ \E present \in BOOLEAN :
       IF ~present
         THEN /\ setupFailed' = setupFailed \cup {"checkPackage"}
              /\ out' = out \cup {"packageJsonNotFound"}
              /\ setupExitWith(1)
         ELSE /\ setupPc' = "npmInstall"
              /\ UNCHANGED <<setupExit, setupFailed, out>>
  /\ UNCHANGED runnerVars

setupNpmInstall == setupStep("npmInstall", "dockerPs", "installFailed")

setupDockerPs == setupStep("dockerPs", "composeUp", "dockerNotRunning")

setupComposeUp == setupStep("composeUp", "sleep30", "localStackStartFailed")

\* 5. execSync('sleep 30') outside any try: a throw is an uncaught exception,
\* which ends the process with code 1
setupSleep30 ==
  /\ setupPc = "sleep30"
  /\ \E sleepOk \in BOOLEAN :
       IF ~sleepOk
         THEN /\ setupFailed' = setupFailed \cup {"sleep30"}
              /\ setupExitWith(1)
         ELSE /\ setupPc' = "deploy"
              /\ UNCHANGED <<setupExit, setupFailed>>
  /\ UNCHANGED <<runnerVars, out>>

setupDeploy == setupStep("deploy", "runTest", "deployFailed")

\* the success banner and the normal end of the script
setupBanner ==
  /\ out' = out \cup {"setupCompleted"}
  /\ setupExitWith(0)

\* 7. if (checkFile('scripts/test-pipeline.js')) execute('node scripts/test-pipeline.js')
\* execSync starts the test runner and blocks until it has exited
setupRunTest ==
  /\ setupPc = "runTest"
  /\ \E present \in BOOLEAN :
       IF present
         THEN /\ setupPc' = "awaitTest"
              /\ pc' = "checkLocalStack"
              /\ UNCHANGED <<setupExit, setupFailed, out>>
         ELSE /\ setupBanner
              /\ UNCHANGED <<setupFailed, pc>>
  /\ UNCHANGED <<exitCode, allPassed, order, ret, calls, raised, last, waitVars,
                 verifyVars, response>>

\* execSync returns, or throws when the runner's exit code is not 0; the
\* value execute returns is not read
setupTestDone ==
  /\ setupPc = "awaitTest"
  /\ pc = "exited"
  /\ setupFailed' = IF execute(exitCode = 0) THEN setupFailed
                                              ELSE setupFailed \cup {"runTest"}
  /\ setupBanner
  /\ UNCHANGED runnerVars

----------------------------------------------------------------------------
(* Specifications *)

InitRunner ==
  /\ exitCode = 0
  /\ allPassed = TRUE
  /\ order = <<>>
  /\ ret = <<>>
  /\ calls = [s \in Sites |-> 0]
  /\ raised = {}
  /\ last = NoCall
  /\ i = 0
  /\ found = FALSE
  /\ items = <<>>
  /\ missingFields = {}
  /\ response = NoResponse
  /\ out = {}

\* either script is started from the command line
Init ==
  /\ InitRunner
  /\ setupExit = 0
  /\ setupFailed = {}
  /\ maxAttempts = DefaultMaxAttempts
  /\ interval = DefaultInterval
  /\ \/ setupPc = "checkPackage" /\ pc = "notStarted"
     \/ setupPc = "off" /\ pc = "checkLocalStack"

Next ==
  \/ checkLocalStack
  \/ checkBucket
  \/ checkTable
  \/ uploadTestFile
  \/ startPolling
  \/ waitScan
  \/ waitSleep
  \/ waitTimeout
  \/ afterWait
  \/ verifyData
  \/ sleepBeforeApi
  \/ testApi
  \/ summary
  \/ setupCheckPackage
  \/ setupNpmInstall
  \/ setupDockerPs
  \/ setupComposeUp
  \/ setupSleep30
  \/ setupDeploy
  \/ setupRunTest
  \/ setupTestDone

Spec == Init /\ [][Next]_vars

\* waitForProcessing(maxAttempts, interval) called with any arguments
InitWait ==
  /\ InitRunner
  /\ setupPc = "off"
  /\ setupExit = 0
  /\ setupFailed = {}
  /\ maxAttempts \in 0..MaxAttempts
  /\ interval \in Intervals
  /\ pc = "wait_loop"

NextWait ==
  \/ waitScan
  \/ waitSleep
  \/ waitTimeout

SpecWait == InitWait /\ [][NextWait]_vars

----------------------------------------------------------------------------
(* Properties *)

WaitScan == "waitForProcessing.scan"

ChecksPassed ==
  /\ calls["listBuckets"] > 0 /\ "listBuckets" \notin raised
  /\ calls["headBucket"] > 0 /\ "headBucket" \notin raised
  /\ calls["checkTable.scan"] > 0 /\ "checkTable.scan" \notin raised

Attempted(step) == \E k \in 1..Len(order) : order[k] = step

Returned(step) == step \in DOMAIN ret

SummaryReached == "cleanupHint" \in out

\* C1: when s3.listBuckets raises, the test runner has exited with code 1 and
\* no other external call (headBucket, any scan, putObject, invoke) is made in
\* that run, in this state or any later one.
C1_EmulatorUnreachableExits ==
  "listBuckets" \in raised =>
    /\ pc = "exited"
    /\ exitCode = 1
    /\ \A s \in Sites \ {"listBuckets"} : calls[s] = 0
    /\ order = <<>>

C1_Witness ==
  /\ "listBuckets" \in raised
  /\ calls["listBuckets"] = 1
  /\ pc = "exited"

\* C2: when headBucket or the checkTable scan raises, the test runner has
\* exited with code 1 and uploadTestFile (putObject) is never attempted;
\* putObject is attempted only when listBuckets, headBucket and the table
\* scan were all made and none raised.
C2_MissingResourceExitsBeforeUpload ==
  /\ ("headBucket" \in raised \/ "checkTable.scan" \in raised) =>
       /\ pc = "exited"
       /\ exitCode = 1
       /\ calls["putObject"] = 0
       /\ ~Attempted("uploadTestFile")
  /\ (calls["putObject"] > 0 \/ Attempted("uploadTestFile")) => ChecksPassed

C2_Witness ==
  /\ "listBuckets" \notin raised
  /\ "headBucket" \notin raised
  /\ "checkTable.scan" \in raised
  /\ pc = "exited"

\* C3: once the three availability checks have passed, whatever happens in
\* uploadTestFile, waitForProcessing, verifyData and testApi, the run ends
\* with the summary printed and with an exit code other than 1.
C3_MidPipelineFailureKeepsExitCode ==
  (ChecksPassed /\ pc = "exited") => (exitCode # 1 /\ SummaryReached)

\* C4: in every run that passes the availability checks the four pipeline
\* steps are each called exactly once, in the order uploadTestFile,
\* waitForProcessing, verifyData, testApi, each only after the previous one
\* has returned, and the run does not end before all four were called.
C4_LaterStepsAlwaysRun ==
  ChecksPassed =>
    /\ Len(order) <= Len(PipelineSteps)
    /\ \A k \in 1..Len(order) : order[k] = PipelineSteps[k]
    /\ \A k \in 2..Len(order) : Returned(order[k - 1])
    /\ pc = "exited" => order = PipelineSteps

\* C5 (state part): waitForProcessing never makes more than maxAttempts
\* scans; every scan, raising or not, uses exactly one attempt; a non-empty
\* scan makes it return true at once; it returns false exactly when
\* maxAttempts scans were made and none was non-empty; and until it has
\* returned it can always take its next step.
C5_WaitInv ==
  /\ calls[WaitScan] <= maxAttempts
  /\ calls[WaitScan] = i + (IF pc = "wait_sleep" \/ found THEN 1 ELSE 0)
  /\ found => (pc = "wait_ret" /\ Returned("waitForProcessing")
               /\ ret["waitForProcessing"])
  /\ pc = "wait_ret" =>
       /\ Returned("waitForProcessing")
       /\ ret["waitForProcessing"] <=> found
       /\ ~ret["waitForProcessing"] <=> (calls[WaitScan] = maxAttempts /\ ~found)
  /\ pc # "wait_ret" => (~Returned("waitForProcessing") /\ ENABLED NextWait)

\* C5: waitForProcessing(maxAttempts, interval) terminates after at most
\* maxAttempts scans, returns true at the first non-empty scan and scans no
\* more after it, and returns false exactly when all maxAttempts scans were
\* made without a non-empty one, a raising scan counting as one attempt.
C5_WaitBounded ==
  /\ []C5_WaitInv
  /\ [][found => calls'[WaitScan] = calls[WaitScan]]_vars

C5_Witness ==
  /\ pc = "wait_ret"
  /\ ~ret["waitForProcessing"]
  /\ WaitScan \in raised
  /\ "waitingWarning" \in out
  /\ maxAttempts >= 2

\* C6: in waitForProcessing every scan after the first is immediately
\* preceded by a sleep of interval milliseconds, whether the previous scan
\* returned an empty result or raised.
C6_SleepBetweenAttempts ==
  [][(calls'[WaitScan] = calls[WaitScan] + 1 /\ calls[WaitScan] > 0)
       => (last.op = "sleep" /\ last.ms = interval)]_vars

\* C7: the setup script exits with code 1 whenever one of its steps failed,
\* and prints the success banner only when every executed step succeeded.
C7_SetupExitsOnAnyFailure ==
  setupPc = "exited" =>
    /\ setupFailed # {} => setupExit = 1
    /\ "setupCompleted" \in out => setupFailed = {}

\* C8: testApi returns true only for a response whose statusCode is 201 and
\* whose body contains an id field.
C8_ApiSuccessNeedsStatusAndId ==
  (Returned("testApi") /\ ret["testApi"]) =>
    /\ response.kind = "object"
    /\ response.statusCode = StatusCreated
    /\ response.body.kind = "object"
    /\ "id" \in response.body.fields

\* C9: when verifyData's scan succeeds with at least one record, verifyData
\* returns true whichever of the required fields the first record lacks, and
\* the missing-fields warning is printed exactly when some field is lacking;
\* verifyData returns false only when the scan raised or gave no record.
C9_MissingFieldsNotFatal ==
  Returned("verifyData") =>
    /\ ("verifyData.scan" \notin raised /\ Len(items) > 0) =>
         /\ ret["verifyData"]
         /\ missingFields = requiredFields \ items[1]
         /\ "missingFieldsWarning" \in out <=> missingFields # {}
         /\ "allFieldsPresent" \in out <=> missingFields = {}
    /\ ~ret["verifyData"] => ("verifyData.scan" \in raised \/ Len(items) = 0)

C9_Witness ==
  /\ Returned("verifyData")
  /\ ret["verifyData"]
  /\ missingFields = {"preco", "source_file"}
  /\ "missingFieldsWarning" \in out

AllStepsTrue ==
  \A k \in 1..Len(PipelineSteps) :
    Returned(PipelineSteps[k]) /\ ret[PipelineSteps[k]]

\* C10 (state part): allPassed starts true; exactly one summary message is
\* printed when the summary is reached and none before; 'all tests passed'
\* is printed iff the four steps all returned true.
C10_SummaryInv ==
  /\ pc \in {"notStarted", "checkLocalStack"} => allPassed
  /\ "allTestsPassed" \in out <=> (SummaryReached /\ AllStepsTrue)
  /\ "someTestsFailed" \in out <=> (SummaryReached /\ ~AllStepsTrue)

\* C10: the final summary reflects exactly the recorded step results, and
\* allPassed, once false, is never true again.
C10_SummaryReflectsResults ==
  /\ []C10_SummaryInv
  /\ [][~allPassed => ~allPassed']_vars

C10_Witness ==
  /\ SummaryReached
  /\ "someTestsFailed" \in out
  /\ ~ret["uploadTestFile"]
  /\ ret["waitForProcessing"] /\ ret["verifyData"] /\ ret["testApi"]

====
